---- MODULE Spec2Model ----
(***************************************************************************)
(* gosignal: the Hook registry / ordering / execution engine (hook.go,     *)
(* types.go) and the Handler state machine (handler.go).                   *)
(*                                                                         *)
(* Goroutines are the elements of Threads; every method is split at its    *)
(* blocking points (mutex acquisition, channel send/receive, callback      *)
(* body).  A goroutine that panics keeps whatever it had not released by a *)
(* defer and never runs again.                                             *)
(***************************************************************************)
EXTENDS Integers, Sequences, FiniteSets, TLC

\* ------------------------------------------------------------------ bounds
MaxRegs  == 2      \* registration calls (Function / Notify) per behaviour
MaxExecs == 2      \* Exec calls per behaviour
MaxExits == 1      \* Handler.Exit calls per behaviour

\* ----------------------------------------------------------- program data
MaxUint16 == 65535

Threads   == {1, 2}
HookIds   == {"h", "g"}
NoHook    == "nil"

FuncNames   == {"a", "b"}
NotifyNames == {"n", "m"}

\* channels supplied by the caller: 0 is the nil channel
NilChan   == 0
Chans     == {1, 2}         \* signal channels: 1 unbuffered, 2 buffered (cap 1)
DoneChans == {3}            \* acknowledgement channel, unbuffered
ChanCap(c) == IF c = 2 THEN 1 ELSE 0

\* *Function / *Notify values; reg is the identity of the pointed-to struct
\* (the number of the registration call that passed it), 0 for a nil pointer
NilFunction == [reg |-> 0, Name |-> "", Order |-> 0, Concurrent |-> FALSE,
                Overwrite |-> FALSE, Func |-> FALSE]
NilNotify   == [reg |-> 0, Name |-> "", Order |-> 0, NonBlocking |-> FALSE,
                Overwrite |-> FALSE, Chan |-> NilChan, DoneChan |-> NilChan]

\* arguments a caller passes to hook.Function (reg is filled in at the call):
\* two that violate a requirement, and the valid ones over the given values
BadFunctionArgs ==
    {[NilFunction EXCEPT !.Name = "", !.Order = 5, !.Func = TRUE],
     [NilFunction EXCEPT !.Name = "a", !.Order = 5, !.Func = FALSE]}
FunctionArgs(names, orders, concurrent, overwrite) ==
    [reg : {0}, Name : names, Order : orders, Concurrent : concurrent,
     Overwrite : overwrite, Func : {TRUE}]

\* arguments a caller passes to hook.Notify
BadNotifyArgs ==
    {[NilNotify EXCEPT !.Name = "", !.Order = 5, !.Chan = 1],
     [NilNotify EXCEPT !.Name = "n", !.Order = 5, !.Chan = NilChan]}
NotifyArgs(names, orders, nonblocking, overwrite, chans, dones) ==
    [reg : {0}, Name : names, Order : orders, NonBlocking : nonblocking,
     Overwrite : overwrite, Chan : chans, DoneChan : dones]

\* NewHook
NewHook ==
    [functions     |-> [k \in FuncNames |-> NilFunction],
     notifies      |-> [k \in NotifyNames |-> NilNotify],
     doReorder     |-> FALSE,
     functionOrder |-> <<>>,
     notifyOrder   |-> <<>>,
     writer        |-> 0,      \* mu: goroutine holding Lock
     readers       |-> {},     \* mu: goroutines holding RLock
     pending       |-> {}]     \* mu: goroutines blocked in Lock

\* ---------------------------------------------------------- map helpers
\* keys of a Go map modelled as a total function with nil for absent keys
Keys(m) == {k \in DOMAIN m : m[k].reg # 0}

\* m[name]: nil when the key is absent
Lookup(m, name, nil) == IF name \in Keys(m) THEN m[name] ELSE nil

\* delete(m, name): a no-op when the key is absent
Delete(m, name, nil) == [k \in DOMAIN m |-> IF k = name THEN nil ELSE m[k]]

\* every order in which a range loop may visit the keys of a map
RECURSIVE Perms(_)
Perms(S) ==
    IF S = {} THEN {<<>>}
    ELSE UNION {{<<x>> \o p : p \in Perms(S \ {x})} : x \in S}

\* clear(slice): every element set to nil, the length kept
RECURSIVE clear(_, _)
clear(s, nil) == IF s = <<>> THEN <<>> ELSE <<nil>> \o clear(Tail(s), nil)

\* ------------------------------------------------------------ hook.reorder
\* scanFunctions without `lowest = function.Order`: the last key visited wins
RECURSIVE scanFunctionsStale(_, _, _, _)
scanFunctionsStale(fns, it, lowest, lowestName) ==
    IF it = <<>> THEN lowestName
    ELSE LET function == fns[Head(it)] IN
         IF function.Order <= lowest
         THEN scanFunctionsStale(fns, Tail(it), lowest, function.Name)
         ELSE scanFunctionsStale(fns, Tail(it), lowest, lowestName)

\* the inner scan of the functions loop, visiting the keys in the order it
RECURSIVE scanFunctions(_, _, _, _)
scanFunctions(fns, it, lowest, lowestName) ==
    IF it = <<>> THEN lowestName
    ELSE LET function == fns[Head(it)] IN
         IF function.Order <= lowest
         THEN scanFunctions(fns, Tail(it), function.Order, function.Name)
         ELSE scanFunctions(fns, Tail(it), lowest, lowestName)

\* the inner scan of the notifies loop
RECURSIVE scanNotifies(_, _, _, _)
scanNotifies(nts, it, lowest, lowestName) ==
    IF it = <<>> THEN lowestName
    ELSE LET notify == nts[Head(it)] IN
         IF notify.Order < lowest
         THEN scanNotifies(nts, Tail(it), notify.Order, notify.Name)
         ELSE scanNotifies(nts, Tail(it), lowest, lowestName)

\* for len(h.functions) > 0 { ... }: every outcome the map's iteration order
\* allows.  spin: the scan selected no existing key, so the map never shrinks
\* and the loop appends nil without end.
RECURSIVE orderFunctions(_, _)
orderFunctions(fns, out) ==
    IF Keys(fns) = {} THEN {[map |-> fns, order |-> out, spin |-> FALSE]}
    ELSE UNION {
        LET lowestName == scanFunctions(fns, it, MaxUint16, "") IN
        IF lowestName \notin Keys(fns)
        THEN {[map |-> fns, order |-> Append(out, NilFunction), spin |-> TRUE]}
        ELSE orderFunctions(Delete(fns, lowestName, NilFunction),
                            Append(out, fns[lowestName]))
        : it \in Perms(Keys(fns))}

\* for len(h.notifies) > 0 { ... }
RECURSIVE orderNotifies(_, _)
orderNotifies(nts, out) ==
    IF Keys(nts) = {} THEN {[map |-> nts, order |-> out, spin |-> FALSE]}
    ELSE UNION {
        LET lowestName == scanNotifies(nts, it, MaxUint16, "") IN
        IF lowestName \notin Keys(nts)
        THEN {[map |-> nts, order |-> Append(out, NilNotify), spin |-> TRUE]}
        ELSE orderNotifies(Delete(nts, lowestName, NilNotify),
                           Append(out, nts[lowestName]))
        : it \in Perms(Keys(nts))}

\* the restore loops: m[e.Name] = e for each e of the order, up to the first
\* nil element, whose e.Name is a nil dereference
RECURSIVE restore(_, _)
restore(m, order) ==
    IF order = <<>> \/ Head(order).reg = 0 THEN m
    ELSE restore([m EXCEPT ![Head(order).Name] = Head(order)], Tail(order))

HasNil(order) == \E i \in 1..Len(order) : order[i].reg = 0

\* hook.reorder: the set of outcomes [status, hook].  status is "ok" when the
\* call returns, "spin" when a selection loop never ends, "panic" when a
\* restore loop dereferences a nil element.
reorder(h) ==
    IF ~h.doReorder THEN {[status |-> "ok", hook |-> h]}
    ELSE UNION {
        IF f.spin
        THEN {[status |-> "spin",
               hook |-> [h EXCEPT !.functions = f.map, !.functionOrder = f.order,
                                  !.notifyOrder = clear(h.notifyOrder, NilNotify)]]}
        ELSE UNION {
            LET h1 == [h EXCEPT !.functionOrder = f.order, !.notifyOrder = n.order] IN
            IF n.spin
            THEN {[status |-> "spin",
                   hook |-> [h1 EXCEPT !.functions = f.map, !.notifies = n.map]]}
            ELSE IF HasNil(f.order)
            THEN {[status |-> "panic",
                   hook |-> [h1 EXCEPT !.functions = restore(f.map, f.order),
                                       !.notifies = n.map]]}
            ELSE IF HasNil(n.order)
            THEN {[status |-> "panic",
                   hook |-> [h1 EXCEPT !.functions = restore(f.map, f.order),
                                       !.notifies = restore(n.map, n.order)]]}
            ELSE {[status |-> "ok",
                   hook |-> [h1 EXCEPT !.functions = restore(f.map, f.order),
                                       !.notifies = restore(n.map, n.order)]]}
            : n \in orderNotifies(h.notifies, clear(h.notifyOrder, NilNotify))}
        : f \in orderFunctions(h.functions, clear(h.functionOrder, NilFunction))}

\* ------------------------------------------------------------------- state
VARIABLES
    hooks,      \* HookIds -> hook struct (NewHook's fields and its RWMutex)
    pc,         \* Threads -> where the goroutine stands
    frame,      \* Threads -> locals of the call in progress
    ret,        \* Threads -> outcome of the goroutine's last finished call
    trace,      \* Threads -> what the goroutine's current / last Exec did so far
    snap,       \* Threads -> the entries registered when that Exec reordered
    running,    \* bodies launched with `go` that have not returned
    chLen,      \* Chans -> values buffered in the channel
    chRecv,     \* Chans -> a receiver is blocked on the channel
    ackSend,    \* DoneChans -> a sender is blocked on the channel
    lastF,      \* HookIds -> FuncNames -> last Function registered successfully
    lastN,      \* HookIds -> NotifyNames -> last Notify registered successfully
    replaced,   \* [old, new]: registration new overwrote the entry of registration old
    nreg,       \* registration calls made so far
    nexec,      \* Exec calls made so far
    exitHook,   \* handler.exitHook: a Hook, or NoHook
    hookMap,    \* handler.hookMap: Signals -> a Hook, or NoHook when absent
    capturing,  \* handler.capturing
    sigCh,      \* handler.sigCh: the signals buffered (capacity 1)
    hmu,        \* handler.mu: the goroutine holding it, 0 when free
    loopLock,   \* handler.loopLock
    exitLock,   \* handler.exitLock
    hframe,     \* Threads -> locals of the Handler call in progress
    proc,       \* the process: notified signals, exit code once terminated
    exits,      \* how often the exit Hook was started, os.Exit called, and
                \* the exit sequence entered with the latch set
    defaultHandler, \* the package variable: 0 for nil, else the number of the
                    \* Handler newHandler made
    getting,    \* GetHandler: the Handlers made so far, each caller's position
                \* and the Handler its last call returned
    inner       \* Threads -> the call the inline body running in the goroutine
                \* has made and not returned from

handlerVars == <<exitHook, hookMap, capturing, sigCh, hmu, loopLock, exitLock,
                 hframe, proc, exits, defaultHandler, getting>>
\* the Handler's state but its mutex
handlerRest == <<exitHook, hookMap, capturing, sigCh, loopLock, exitLock,
                 hframe, proc, exits, defaultHandler, getting>>

\* the *OSSignal a Handler puts into the context it passes to Exec
NoSignal == "nil"
NoCtx == [Signal |-> NoSignal, Exit |-> FALSE, ExitType |-> "", ExitCode |-> 0]

NoFrame == [hook |-> "h", idx |-> 0, fn |-> NilFunction, nt |-> NilNotify,
            cont |-> "idle", ctx |-> NoCtx]
NoRet   == [op |-> "", hook |-> "h", err |-> "", name |-> "", fn |-> NilFunction,
            nt |-> NilNotify]

\* no call made by a body
NoInner == [op |-> "", hook |-> "h", sig |-> NoSignal, fn |-> NilFunction]

HookInit ==
    /\ hooks = [h \in HookIds |-> NewHook]
    /\ pc = [t \in Threads |-> "idle"]
    /\ frame = [t \in Threads |-> NoFrame]
    /\ ret = [t \in Threads |-> NoRet]
    /\ trace = [t \in Threads |-> <<>>]
    /\ snap = [t \in Threads |-> [F |-> {}, N |-> {}]]
    /\ running = {}
    /\ chLen = [c \in Chans |-> 0]
    /\ chRecv = [c \in Chans |-> FALSE]
    /\ ackSend = [c \in DoneChans |-> FALSE]
    /\ lastF = [h \in HookIds |-> [k \in FuncNames |-> NilFunction]]
    /\ lastN = [h \in HookIds |-> [k \in NotifyNames |-> NilNotify]]
    /\ replaced = {}
    /\ nreg = 0
    /\ nexec = 0
    /\ inner = [t \in Threads |-> NoInner]

\* ------------------------------------------------------------ sync.RWMutex
\* Lock() can be taken: nobody holds the mutex
CanLock(h) == hooks[h].writer = 0 /\ hooks[h].readers = {}
\* RLock() can be taken: no writer holds it and none is waiting for it
CanRLock(h) == hooks[h].writer = 0 /\ hooks[h].pending = {}

\* ---------------------------------------------------------------- channels
\* a send on c completes at once: a receiver is waiting or the buffer has room
CanSend(c) == chRecv[c] \/ chLen[c] < ChanCap(c)

\* --------------------------------------------------- hook.Function / Notify
\* hook.Function, up to h.mu.Lock(): the two requirement checks
Function(t, h, function) ==
    /\ proc.alive
    /\ pc[t] = "idle"
    /\ nreg < MaxRegs
    /\ nreg' = nreg + 1
    /\ LET f == [function EXCEPT !.reg = nreg + 1] IN
       IF f.Name = ""
       THEN /\ ret' = [ret EXCEPT ![t] = [NoRet EXCEPT !.op = "Function", !.hook = h,
                                            !.err = "ErrFunctionNameEmpty", !.fn = f]]
            /\ UNCHANGED <<hooks, pc, frame>>
       ELSE IF ~f.Func
       THEN /\ ret' = [ret EXCEPT ![t] = [NoRet EXCEPT !.op = "Function", !.hook = h,
                                            !.err = "ErrFuncNil", !.fn = f]]
            /\ UNCHANGED <<hooks, pc, frame>>
       ELSE /\ pc' = [pc EXCEPT ![t] = "function_lock"]
            /\ frame' = [frame EXCEPT ![t] = [NoFrame EXCEPT !.hook = h, !.fn = f]]
            /\ hooks' = [hooks EXCEPT ![h].pending = @ \cup {t}]
            /\ UNCHANGED ret
    /\ UNCHANGED <<trace, snap, running, chLen, chRecv, ackSend, lastF, lastN, nexec, replaced>>
    /\ UNCHANGED handlerVars
    /\ UNCHANGED inner

\* FunctionExists without the test
FunctionExistsUnchecked(h, function) == FALSE

\* if _, ok := h.functions[function.Name]; ok && !function.Overwrite
FunctionExists(h, function) ==
    function.Name \in Keys(hooks[h].functions) /\ ~function.Overwrite

\* if _, ok := h.notifies[notify.Name]; ok && !notify.Overwrite
NotifyExists(h, notify) ==
    notify.Name \in Keys(hooks[h].notifies) /\ ~notify.Overwrite

\* hook.Function, from h.mu.Lock() to the deferred h.mu.Unlock()
FunctionLocked(t) ==
    /\ proc.alive
    /\ pc[t] = "function_lock"
    /\ LET h == frame[t].hook
           function == frame[t].fn IN
       /\ CanLock(h)
       /\ IF FunctionExists(h, function)
          THEN /\ ret' = [ret EXCEPT ![t] = [NoRet EXCEPT !.op = "Function", !.hook = h,
                                               !.err = "ErrFunctionExists", !.fn = function]]
               /\ hooks' = [hooks EXCEPT ![h].pending = @ \ {t}]
               /\ UNCHANGED <<lastF, replaced>>
          ELSE /\ ret' = [ret EXCEPT ![t] = [NoRet EXCEPT !.op = "Function", !.hook = h,
                                               !.err = "nil", !.fn = function]]
               /\ hooks' = [hooks EXCEPT ![h].pending = @ \ {t},
                                         ![h].doReorder = TRUE,
                                         ![h].functions[function.Name] = function]
               /\ lastF' = [lastF EXCEPT ![h][function.Name] = function]
               /\ replaced' = replaced \cup {[old |-> hooks[h].functions[k].reg, new |-> function.reg] :
                                    k \in Keys(hooks[h].functions) \cap {function.Name}}
    /\ pc' = [pc EXCEPT ![t] = "idle"]
    /\ frame' = [frame EXCEPT ![t] = NoFrame]
    /\ UNCHANGED <<trace, snap, running, chLen, chRecv, ackSend, lastN, nreg, nexec>>
    /\ UNCHANGED handlerVars
    /\ UNCHANGED inner

\* hook.Notify, up to h.mu.Lock()
Notify(t, h, notify) ==
    /\ proc.alive
    /\ pc[t] = "idle"
    /\ nreg < MaxRegs
    /\ nreg' = nreg + 1
    /\ LET n == [notify EXCEPT !.reg = nreg + 1] IN
       IF n.Name = ""
       THEN /\ ret' = [ret EXCEPT ![t] = [NoRet EXCEPT !.op = "Notify", !.hook = h,
                                            !.err = "ErrNotifyNameEmpty", !.nt = n]]
            /\ UNCHANGED <<hooks, pc, frame>>
       ELSE IF n.Chan = NilChan
       THEN /\ ret' = [ret EXCEPT ![t] = [NoRet EXCEPT !.op = "Notify", !.hook = h,
                                            !.err = "ErrChanNil", !.nt = n]]
            /\ UNCHANGED <<hooks, pc, frame>>
       ELSE /\ pc' = [pc EXCEPT ![t] = "notify_lock"]
            /\ frame' = [frame EXCEPT ![t] = [NoFrame EXCEPT !.hook = h, !.nt = n]]
            /\ hooks' = [hooks EXCEPT ![h].pending = @ \cup {t}]
            /\ UNCHANGED ret
    /\ UNCHANGED <<trace, snap, running, chLen, chRecv, ackSend, lastF, lastN, nexec, replaced>>
    /\ UNCHANGED handlerVars
    /\ UNCHANGED inner

\* hook.Notify, from h.mu.Lock() to the deferred h.mu.Unlock()
NotifyLocked(t) ==
    /\ proc.alive
    /\ pc[t] = "notify_lock"
    /\ LET h == frame[t].hook
           notify == frame[t].nt IN
       /\ CanLock(h)
       /\ IF NotifyExists(h, notify)
          THEN /\ ret' = [ret EXCEPT ![t] = [NoRet EXCEPT !.op = "Notify", !.hook = h,
                                               !.err = "ErrNotifyExists", !.nt = notify]]
               /\ hooks' = [hooks EXCEPT ![h].pending = @ \ {t}]
               /\ UNCHANGED <<lastN, replaced>>
          ELSE /\ ret' = [ret EXCEPT ![t] = [NoRet EXCEPT !.op = "Notify", !.hook = h,
                                               !.err = "nil", !.nt = notify]]
               /\ hooks' = [hooks EXCEPT ![h].pending = @ \ {t},
                                         ![h].doReorder = TRUE,
                                         ![h].notifies[notify.Name] = notify]
               /\ lastN' = [lastN EXCEPT ![h][notify.Name] = notify]
               /\ replaced' = replaced \cup {[old |-> hooks[h].notifies[k].reg, new |-> notify.reg] :
                                    k \in Keys(hooks[h].notifies) \cap {notify.Name}}
    /\ pc' = [pc EXCEPT ![t] = "idle"]
    /\ frame' = [frame EXCEPT ![t] = NoFrame]
    /\ UNCHANGED <<trace, snap, running, chLen, chRecv, ackSend, lastF, nreg, nexec>>
    /\ UNCHANGED handlerVars
    /\ UNCHANGED inner

\* ------------------------------------------------- GetFunction / GetNotify
\* hook.GetFunction: RLock, map lookup, deferred RUnlock
GetFunction(t, h, name) ==
    /\ proc.alive
    /\ pc[t] = "idle"
    /\ CanRLock(h)
    /\ ret' = [ret EXCEPT ![t] = [NoRet EXCEPT !.op = "GetFunction", !.hook = h, !.name = name,
                 !.fn = Lookup(hooks[h].functions, name, NilFunction)]]
    /\ UNCHANGED <<hooks, pc, frame, trace, snap, running, chLen, chRecv, ackSend,
                   lastF, lastN, nreg, nexec, replaced>>
    /\ UNCHANGED handlerVars
    /\ UNCHANGED inner

\* hook.GetNotify
GetNotify(t, h, name) ==
    /\ proc.alive
    /\ pc[t] = "idle"
    /\ CanRLock(h)
    /\ ret' = [ret EXCEPT ![t] = [NoRet EXCEPT !.op = "GetNotify", !.hook = h, !.name = name,
                 !.nt = Lookup(hooks[h].notifies, name, NilNotify)]]
    /\ UNCHANGED <<hooks, pc, frame, trace, snap, running, chLen, chRecv, ackSend,
                   lastF, lastN, nreg, nexec, replaced>>
    /\ UNCHANGED handlerVars
    /\ UNCHANGED inner

\* ---------------------------------------------------------------- hook.Exec
\* one entry of a trace: what was done (call / ret / go of a Function body, send
\* / ack of a Notify), to which entry, and for a send whether it was delivered
FnEvent(ev, f) ==
    [ev |-> ev, reg |-> f.reg, Name |-> f.Name, Order |-> f.Order,
     detached |-> f.Concurrent, acked |-> FALSE, ok |-> TRUE]
NtEvent(ev, n, ok) ==
    [ev |-> ev, reg |-> n.reg, Name |-> n.Name, Order |-> n.Order,
     detached |-> n.NonBlocking, acked |-> n.DoneChan # NilChan, ok |-> ok]

Regs(m) == {m[k].reg : k \in Keys(m)}

\* entering Exec(ctx) on hook h: the goroutine (then at "exec_lock") queues for
\* h.mu.Lock(); cont is where it stands again once Exec has returned
StartExec(t, h, cont, ctx) ==
    /\ frame' = [frame EXCEPT ![t] = [NoFrame EXCEPT !.hook = h, !.cont = cont,
                                                      !.ctx = ctx]]
    /\ hooks' = [hooks EXCEPT ![h].pending = @ \cup {t}]
    /\ trace' = [trace EXCEPT ![t] = <<>>]
    /\ snap' = [snap EXCEPT ![t] = [F |-> {}, N |-> {}]]

\* a caller invokes hook.Exec
Exec(t, h) ==
    /\ proc.alive
    /\ pc[t] = "idle"
    /\ nexec < MaxExecs
    /\ nexec' = nexec + 1
    /\ StartExec(t, h, "idle", NoCtx)
    /\ pc' = [pc EXCEPT ![t] = "exec_lock"]
    /\ UNCHANGED <<ret, running, chLen, chRecv, ackSend, lastF, lastN, nreg, replaced>>
    /\ UNCHANGED handlerVars
    /\ UNCHANGED inner

\* a panic below handleSignal or Exit runs their deferred h.mu.Unlock()
Unwind(t) == hmu' = IF hmu = t THEN 0 ELSE hmu

\* h.mu.Lock(); h.reorder(); h.mu.Unlock().  A reorder that panics or never
\* returns leaves h.mu write-locked: the Unlock is not deferred.
ExecReorder(t) ==
    /\ proc.alive
    /\ pc[t] = "exec_lock"
    /\ LET h == frame[t].hook IN
       /\ CanLock(h)
       /\ \E r \in reorder(hooks[h]) :
            /\ hooks' = [hooks EXCEPT ![h] =
                   [r.hook EXCEPT !.pending = @ \ {t},
                                  !.writer = IF r.status = "ok" THEN 0 ELSE t]]
            /\ pc' = [pc EXCEPT ![t] = CASE r.status = "ok" -> "exec_rlock"
                                         [] r.status = "panic" -> "panicked"
                                         [] r.status = "spin" -> "reorder_spin"]
            /\ IF r.status = "panic" THEN Unwind(t) ELSE UNCHANGED hmu
       /\ snap' = [snap EXCEPT ![t] = [F |-> Regs(hooks[h].functions),
                                       N |-> Regs(hooks[h].notifies)]]
    /\ UNCHANGED <<frame, ret, trace, running, chLen, chRecv, ackSend, lastF, lastN,
                   nreg, nexec, replaced>>
    /\ UNCHANGED handlerRest
    /\ UNCHANGED inner

\* h.mu.RLock(); defer h.mu.RUnlock()
ExecRLock(t) ==
    /\ proc.alive
    /\ pc[t] = "exec_rlock"
    /\ CanRLock(frame[t].hook)
    /\ hooks' = [hooks EXCEPT ![frame[t].hook].readers = @ \cup {t}]
    /\ pc' = [pc EXCEPT ![t] = "exec_functions"]
    /\ frame' = [frame EXCEPT ![t].idx = 1]
    /\ UNCHANGED <<ret, trace, snap, running, chLen, chRecv, ackSend, lastF, lastN,
                   nreg, nexec, replaced>>
    /\ UNCHANGED handlerVars
    /\ UNCHANGED inner

\* Launched without the test: every body is called inline
LaunchedNever(function) == FALSE

\* if function.Concurrent { go function.Func(ctx) } else { function.Func(ctx) }
Launched(function) == function.Concurrent

\* FunctionsDone that leaves the functions loop at once
FunctionsDoneAtOnce(order, i) == TRUE

\* `for _, function := range h.functionOrder` is over
FunctionsDone(order, i) == i > Len(order)

\* one pass of `for _, function := range h.functionOrder`: the body is launched
\* with go, or called inline; after the last element the notifies loop starts
ExecFunction(t) ==
    /\ proc.alive
    /\ pc[t] = "exec_functions"
    /\ LET h == frame[t].hook
           order == hooks[h].functionOrder
           i == frame[t].idx IN
       IF FunctionsDone(order, i)
       THEN /\ pc' = [pc EXCEPT ![t] = "exec_notifies"]
            /\ frame' = [frame EXCEPT ![t].idx = 1]
            /\ UNCHANGED <<hooks, trace, running, hmu>>
       ELSE IF order[i].reg = 0
       THEN \* function.Concurrent on a nil *Function; the deferred RUnlock runs
            /\ pc' = [pc EXCEPT ![t] = "panicked"]
            /\ hooks' = [hooks EXCEPT ![h].readers = @ \ {t}]
            /\ Unwind(t)
            /\ UNCHANGED <<frame, trace, running>>
       ELSE IF Launched(order[i])
       THEN /\ running' = running \cup {[by |-> t, reg |-> order[i].reg]}
            /\ trace' = [trace EXCEPT ![t] = Append(@, FnEvent("go", order[i]))]
            /\ frame' = [frame EXCEPT ![t].idx = i + 1]
            /\ UNCHANGED <<hooks, pc, hmu>>
       ELSE /\ trace' = [trace EXCEPT ![t] = Append(@, FnEvent("call", order[i]))]
            /\ frame' = [frame EXCEPT ![t].fn = order[i]]
            /\ pc' = [pc EXCEPT ![t] = "exec_body"]
            /\ UNCHANGED <<hooks, running, hmu>>
    /\ UNCHANGED <<ret, snap, chLen, chRecv, ackSend, lastF, lastN, nreg, nexec, replaced>>
    /\ UNCHANGED handlerRest
    /\ UNCHANGED inner

\* the inline body function.Func(ctx) returns
BodyReturn(t) ==
    /\ proc.alive
    /\ pc[t] = "exec_body"
    /\ trace' = [trace EXCEPT ![t] = Append(@, FnEvent("ret", frame[t].fn))]
    /\ frame' = [frame EXCEPT ![t].idx = @ + 1, ![t].fn = NilFunction]
    /\ pc' = [pc EXCEPT ![t] = "exec_functions"]
    /\ UNCHANGED <<hooks, ret, snap, running, chLen, chRecv, ackSend, lastF, lastN,
                   nreg, nexec, replaced>>
    /\ UNCHANGED handlerVars
    /\ UNCHANGED inner

\* the inline body calls a Handler method, here Get(sig), on the goroutine that
\* runs it: up to h.mu.Lock()
BodyCallsGet(t, sig) ==
    /\ proc.alive
    /\ pc[t] = "exec_body"
    /\ pc' = [pc EXCEPT ![t] = "body_handler_lock"]
    /\ inner' = [inner EXCEPT ![t] = [NoInner EXCEPT !.op = "Get", !.sig = sig]]
    /\ UNCHANGED <<hooks, frame, ret, trace, snap, running, chLen, chRecv, ackSend,
                   lastF, lastN, nreg, nexec, replaced>>
    /\ UNCHANGED handlerVars

\* the body's Get: h.mu.Lock(), the lookup, the deferred h.mu.Unlock()
BodyGetLocked(t) ==
    /\ proc.alive
    /\ pc[t] = "body_handler_lock"
    /\ hmu = 0
    /\ pc' = [pc EXCEPT ![t] = "exec_body"]
    /\ inner' = [inner EXCEPT ![t] = NoInner]
    /\ UNCHANGED <<hooks, frame, ret, trace, snap, running, chLen, chRecv, ackSend,
                   lastF, lastN, nreg, nexec, replaced>>
    /\ UNCHANGED handlerVars

\* the inline body registers a valid Function on Hook h: up to h.mu.Lock()
BodyCallsFunction(t, h, function) ==
    /\ proc.alive
    /\ pc[t] = "exec_body"
    /\ function.Name # "" /\ function.Func
    /\ nreg < MaxRegs
    /\ nreg' = nreg + 1
    /\ pc' = [pc EXCEPT ![t] = "body_function_lock"]
    /\ inner' = [inner EXCEPT ![t] = [NoInner EXCEPT !.op = "Function", !.hook = h,
                                                     !.fn = [function EXCEPT !.reg = nreg + 1]]]
    /\ hooks' = [hooks EXCEPT ![h].pending = @ \cup {t}]
    /\ UNCHANGED <<frame, ret, trace, snap, running, chLen, chRecv, ackSend,
                   lastF, lastN, nexec, replaced>>
    /\ UNCHANGED handlerVars

\* the body's hook.Function, from h.mu.Lock() to the deferred h.mu.Unlock()
BodyFunctionLocked(t) ==
    /\ proc.alive
    /\ pc[t] = "body_function_lock"
    /\ LET h == inner[t].hook
           function == inner[t].fn IN
       /\ CanLock(h)
       /\ IF FunctionExists(h, function)
          THEN /\ hooks' = [hooks EXCEPT ![h].pending = @ \ {t}]
               /\ UNCHANGED <<lastF, replaced>>
          ELSE /\ hooks' = [hooks EXCEPT ![h].pending = @ \ {t},
                                         ![h].doReorder = TRUE,
                                         ![h].functions[function.Name] = function]
               /\ lastF' = [lastF EXCEPT ![h][function.Name] = function]
               /\ replaced' = replaced \cup {[old |-> hooks[h].functions[k].reg, new |-> function.reg] :
                                    k \in Keys(hooks[h].functions) \cap {function.Name}}
    /\ pc' = [pc EXCEPT ![t] = "exec_body"]
    /\ inner' = [inner EXCEPT ![t] = NoInner]
    /\ UNCHANGED <<frame, ret, trace, snap, running, chLen, chRecv, ackSend, lastN,
                   nreg, nexec>>
    /\ UNCHANGED handlerVars

\* a body launched with go returns
GoBodyReturn(g) ==
    /\ proc.alive
    /\ g \in running
    /\ running' = running \ {g}
    /\ UNCHANGED <<hooks, pc, frame, ret, trace, snap, chLen, chRecv, ackSend,
                   lastF, lastN, nreg, nexec, replaced>>
    /\ UNCHANGED handlerVars
    /\ UNCHANGED inner

\* SendReturns with the select's default taken by every Notify
SendReturnsAlways(notify) == TRUE

\* the send statement returns: the select of a NonBlocking notify always does
\* (its default case), the plain send only once the channel takes the value
SendReturns(notify) == notify.NonBlocking \/ CanSend(notify.Chan)

\* AwaitsAck that skips the acknowledgement of a dropped send
AwaitsAckIfSent(notify, sent) == notify.DoneChan # NilChan /\ sent

\* if notify.DoneChan != nil { <-notify.DoneChan }
AwaitsAck(notify, sent) == notify.DoneChan # NilChan

\* the send of one pass of `for _, notify := range h.notifyOrder`: a select
\* with default for a NonBlocking notify, a plain send otherwise; after the
\* last element Exec returns nil and the deferred RUnlock runs
ExecNotify(t) ==
    /\ proc.alive
    /\ pc[t] = "exec_notifies"
    /\ LET h == frame[t].hook
           order == hooks[h].notifyOrder
           i == frame[t].idx IN
       IF i > Len(order)
       THEN /\ pc' = [pc EXCEPT ![t] = frame[t].cont]
            /\ frame' = [frame EXCEPT ![t] = NoFrame]
            /\ hooks' = [hooks EXCEPT ![h].readers = @ \ {t}]
            /\ ret' = [ret EXCEPT ![t] = [NoRet EXCEPT !.op = "Exec", !.hook = h, !.err = "nil"]]
            /\ UNCHANGED <<trace, chLen, chRecv, hmu>>
       ELSE IF order[i].reg = 0
       THEN \* notify.NonBlocking on a nil *Notify; the deferred RUnlock runs
            /\ pc' = [pc EXCEPT ![t] = "panicked"]
            /\ hooks' = [hooks EXCEPT ![h].readers = @ \ {t}]
            /\ Unwind(t)
            /\ UNCHANGED <<frame, ret, trace, chLen, chRecv>>
       ELSE LET notify == order[i]
                c == notify.Chan
                sent == CanSend(c) IN
            /\ SendReturns(notify)
            /\ IF ~sent THEN UNCHANGED <<chLen, chRecv>>
               ELSE IF chRecv[c]
               THEN chRecv' = [chRecv EXCEPT ![c] = FALSE] /\ UNCHANGED chLen
               ELSE chLen' = [chLen EXCEPT ![c] = @ + 1] /\ UNCHANGED chRecv
            /\ trace' = [trace EXCEPT ![t] = Append(@, NtEvent("send", notify, sent))]
            /\ IF AwaitsAck(notify, sent)
               THEN /\ pc' = [pc EXCEPT ![t] = "exec_ack"]
                    /\ frame' = [frame EXCEPT ![t].nt = notify]
               ELSE /\ frame' = [frame EXCEPT ![t].idx = i + 1]
                    /\ UNCHANGED pc
            /\ UNCHANGED <<hooks, ret, hmu>>
    /\ UNCHANGED <<snap, running, ackSend, lastF, lastN, nreg, nexec, replaced>>
    /\ UNCHANGED handlerRest
    /\ UNCHANGED inner

\* <-notify.DoneChan
ExecAck(t) ==
    /\ proc.alive
    /\ pc[t] = "exec_ack"
    /\ ackSend[frame[t].nt.DoneChan]
    /\ ackSend' = [ackSend EXCEPT ![frame[t].nt.DoneChan] = FALSE]
    /\ trace' = [trace EXCEPT ![t] = Append(@, NtEvent("ack", frame[t].nt, TRUE))]
    /\ frame' = [frame EXCEPT ![t].idx = @ + 1, ![t].nt = NilNotify]
    /\ pc' = [pc EXCEPT ![t] = "exec_notifies"]
    /\ UNCHANGED <<hooks, ret, snap, running, chLen, chRecv, lastF, lastN, nreg, nexec, replaced>>
    /\ UNCHANGED handlerVars
    /\ UNCHANGED inner

\* ------------------------------------------------- the callers' other ends
\* a goroutine of the caller arrives at a receive on signal channel c
Receiver(c) ==
    /\ proc.alive
    /\ ~chRecv[c]
    /\ IF chLen[c] > 0
       THEN chLen' = [chLen EXCEPT ![c] = @ - 1] /\ UNCHANGED chRecv
       ELSE chRecv' = [chRecv EXCEPT ![c] = TRUE] /\ UNCHANGED chLen
    /\ UNCHANGED <<hooks, pc, frame, ret, trace, snap, running, ackSend, lastF, lastN,
                   nreg, nexec, replaced>>
    /\ UNCHANGED handlerVars
    /\ UNCHANGED inner

\* a goroutine of the caller arrives at a send on acknowledgement channel d
AckSender(d) ==
    /\ proc.alive
    /\ ~ackSend[d]
    /\ ackSend' = [ackSend EXCEPT ![d] = TRUE]
    /\ UNCHANGED <<hooks, pc, frame, ret, trace, snap, running, chLen, chRecv, lastF,
                   lastN, nreg, nexec, replaced>>
    /\ UNCHANGED handlerVars
    /\ UNCHANGED inner

\* ------------------------------------------------------------------ Handler
TermSignals == {"SIGINT", "SIGTERM", "SIGQUIT"}
Signals     == TermSignals \cup {"SIGHUP"}

RECURSIVE SeqToSet(_)
SeqToSet(q) == IF q = <<>> THEN {} ELSE {Head(q)} \cup SeqToSet(Tail(q))

\* the goroutines that call GetHandler
Getters == {1, 2, 3}

NoHFrame == [sig |-> NoSignal, code |-> 0, type |-> "", from |-> ""]

\* newHandler, in a process that relays no signal yet
HandlerInit ==
    /\ exitHook = NoHook
    /\ hookMap = [sig \in Signals |-> NoHook]
    /\ capturing = <<>>
    /\ sigCh = <<>>
    /\ hmu = 0
    /\ loopLock = FALSE
    /\ exitLock = FALSE
    /\ hframe = [t \in Threads |-> NoHFrame]
    /\ proc = [alive |-> TRUE, code |-> 0, notify |-> {}]
    /\ exits = [calls |-> 0, hook |-> 0, os |-> 0, noop |-> 0]
    /\ defaultHandler = 0
    /\ getting = [made |-> 0, at |-> [c \in Getters |-> "idle"],
                  got |-> [c \in Getters |-> 0]]

\* the state no method of the Handler touches but through an Exec: the Hooks,
\* the callers' side of them, and the package's accessor
hookSide == <<hooks, frame, trace, snap, running, chLen, chRecv, ackSend, lastF,
              lastN, replaced, nreg, nexec, defaultHandler, getting, inner>>

\* the loop of setExit / the if of set: signal.Notify and append for each of
\* sigs, in order, that h.capturing does not contain yet
RECURSIVE capture(_, _)
capture(cap, sigs) ==
    IF sigs = <<>> THEN cap
    ELSE IF Head(sigs) \in SeqToSet(cap) THEN capture(cap, Tail(sigs))
    ELSE capture(Append(cap, Head(sigs)), Tail(sigs))

\* what SetExit / Set return to goroutine t
HandlerRet(t, op, hook, sig, err) ==
    [ret EXCEPT ![t] = [NoRet EXCEPT !.op = op, !.hook = hook, !.name = sig, !.err = err]]

\* ExitHookSet without the test
ExitHookSetNever == FALSE

\* setExit: h.exitHook != nil
ExitHookSet == exitHook # NoHook

\* set: _, ok := h.hookMap[sig]; ok
SignalBound(sig) == hookMap[sig] # NoHook

\* handler.SetExit: setExit under h.mu
SetExit(t, hook) ==
    /\ proc.alive
    /\ pc[t] = "idle"
    /\ hmu = 0
    /\ IF hook = NoHook
       THEN /\ ret' = HandlerRet(t, "SetExit", hook, "", "ErrHookNil")
            /\ UNCHANGED <<exitHook, capturing, proc>>
       ELSE IF ExitHookSet
       THEN /\ ret' = HandlerRet(t, "SetExit", hook, "", "ErrExitExists")
            /\ UNCHANGED <<exitHook, capturing, proc>>
       ELSE /\ ret' = HandlerRet(t, "SetExit", hook, "", "nil")
            /\ exitHook' = hook
            /\ capturing' = capture(capturing, <<"SIGINT", "SIGTERM", "SIGQUIT">>)
            /\ proc' = [proc EXCEPT !.notify = @ \cup TermSignals]
    /\ UNCHANGED <<pc, hookMap, sigCh, hmu, loopLock, exitLock, hframe, exits>>
    /\ UNCHANGED hookSide

\* handler.Set: set under h.mu
Set(t, sig, hook) ==
    /\ proc.alive
    /\ pc[t] = "idle"
    /\ hmu = 0
    /\ IF hook = NoHook
       THEN /\ ret' = HandlerRet(t, "Set", hook, sig, "ErrHookNil")
            /\ UNCHANGED <<hookMap, capturing, proc>>
       ELSE IF SignalBound(sig)
       THEN /\ ret' = HandlerRet(t, "Set", hook, sig, "ErrSignalExists")
            /\ UNCHANGED <<hookMap, capturing, proc>>
       ELSE /\ ret' = HandlerRet(t, "Set", hook, sig, "nil")
            /\ hookMap' = [hookMap EXCEPT ![sig] = hook]
            /\ capturing' = capture(capturing, <<sig>>)
            /\ proc' = [proc EXCEPT !.notify = @ \cup {sig}]
    /\ UNCHANGED <<pc, exitHook, sigCh, hmu, loopLock, exitLock, hframe, exits>>
    /\ UNCHANGED hookSide

\* the Hooks the Handler makes itself: NewHook("exit", ...) in GetsExit and
\* NewHook("signal." + sig.String(), ...) in Gets
ExitHookName == "exit"
SignalHookName(sig) ==
    CASE sig = "SIGINT"  -> "signal.interrupt"
      [] sig = "SIGTERM" -> "signal.terminated"
      [] sig = "SIGQUIT" -> "signal.quit"
      [] sig = "SIGHUP"  -> "signal.hangup"

\* the state of everything outside the Handler's bindings and the Hooks
lookupRest == <<pc, frame, trace, snap, running, chLen, chRecv, ackSend, lastF, lastN,
                replaced, nreg, nexec, sigCh, hmu, loopLock, exitLock, hframe, exits,
                defaultHandler, getting, inner>>

\* handler.GetExit
GetExit(t) ==
    /\ proc.alive
    /\ pc[t] = "idle"
    /\ hmu = 0
    /\ ret' = HandlerRet(t, "GetExit", exitHook, "", "nil")
    /\ UNCHANGED <<hooks, exitHook, hookMap, capturing, proc>>
    /\ UNCHANGED lookupRest

\* handler.GetsExit: the exit Hook, made and set by setExit when there is none
GetsExit(t) ==
    /\ proc.alive
    /\ pc[t] = "idle"
    /\ hmu = 0
    /\ IF exitHook = NoHook
       THEN /\ hooks' = (ExitHookName :> NewHook) @@ hooks
            /\ exitHook' = ExitHookName
            /\ capturing' = capture(capturing, <<"SIGINT", "SIGTERM", "SIGQUIT">>)
            /\ proc' = [proc EXCEPT !.notify = @ \cup TermSignals]
       ELSE UNCHANGED <<hooks, exitHook, capturing, proc>>
    /\ ret' = HandlerRet(t, "GetsExit", exitHook', "", "nil")
    /\ UNCHANGED hookMap
    /\ UNCHANGED lookupRest

\* handler.Get
Get(t, sig) ==
    /\ proc.alive
    /\ pc[t] = "idle"
    /\ hmu = 0
    /\ ret' = HandlerRet(t, "Get", hookMap[sig], sig, "nil")
    /\ UNCHANGED <<hooks, exitHook, hookMap, capturing, proc>>
    /\ UNCHANGED lookupRest

\* handler.Gets: the Hook of sig, made and set by set when there is none
Gets(t, sig) ==
    /\ proc.alive
    /\ pc[t] = "idle"
    /\ hmu = 0
    /\ IF hookMap[sig] = NoHook
       THEN /\ hooks' = (SignalHookName(sig) :> NewHook) @@ hooks
            /\ hookMap' = [hookMap EXCEPT ![sig] = SignalHookName(sig)]
            /\ capturing' = capture(capturing, <<sig>>)
            /\ proc' = [proc EXCEPT !.notify = @ \cup {sig}]
       ELSE UNCHANGED <<hooks, hookMap, capturing, proc>>
    /\ ret' = HandlerRet(t, "Gets", hookMap'[sig], sig, "nil")
    /\ UNCHANGED exitHook
    /\ UNCHANGED lookupRest

\* the runtime relays a signal registered with signal.Notify into h.sigCh; a
\* signal that finds the buffer full is dropped
OSSignal(sig) ==
    /\ proc.alive
    /\ sig \in proc.notify
    /\ Len(sigCh) < 1
    /\ sigCh' = Append(sigCh, sig)
    /\ UNCHANGED <<pc, ret, exitHook, hookMap, capturing, hmu, loopLock, exitLock,
                   hframe, proc, exits>>
    /\ UNCHANGED hookSide

\* LoopLocked without the check
LoopLockedNever == FALSE

\* Loop: if h.loopLock { h.mu.Unlock(); panic(ErrLoopLocked) }
LoopLocked == loopLock

\* handler.Loop up to the for: the two checks under h.mu, each a panic
Loop(t) ==
    /\ proc.alive
    /\ pc[t] = "idle"
    /\ hmu = 0
    /\ IF exitLock
       THEN /\ pc' = [pc EXCEPT ![t] = "panicked"]
            /\ ret' = [ret EXCEPT ![t] = [NoRet EXCEPT !.op = "Loop", !.err = "ErrExitLocked"]]
            /\ UNCHANGED loopLock
       ELSE IF LoopLocked
       THEN /\ pc' = [pc EXCEPT ![t] = "panicked"]
            /\ ret' = [ret EXCEPT ![t] = [NoRet EXCEPT !.op = "Loop", !.err = "ErrLoopLocked"]]
            /\ UNCHANGED loopLock
       ELSE /\ pc' = [pc EXCEPT ![t] = "loop_select"]
            /\ loopLock' = TRUE
            /\ UNCHANGED ret
    /\ UNCHANGED <<exitHook, hookMap, capturing, sigCh, hmu, exitLock, hframe, proc, exits>>
    /\ UNCHANGED hookSide

\* case sig := <-h.sigCh: h.handleSignal(sig), up to h.mu.Lock()
LoopSignal(t) ==
    /\ proc.alive
    /\ pc[t] = "loop_select"
    /\ sigCh # <<>>
    /\ sigCh' = Tail(sigCh)
    /\ hframe' = [hframe EXCEPT ![t] = [NoHFrame EXCEPT !.sig = Head(sigCh),
                                                        !.from = "handleSignal"]]
    /\ pc' = [pc EXCEPT ![t] = "handle_lock"]
    /\ UNCHANGED <<ret, exitHook, hookMap, capturing, hmu, loopLock, exitLock, proc, exits>>
    /\ UNCHANGED hookSide

\* SignalLatched without the guard
SignalLatchedNever == FALSE

\* handleSignal: if h.exitLock { return }
SignalLatched == exitLock

\* handleSignal from h.mu.Lock() to the call of hook.Exec
HandleSignal(t) ==
    /\ proc.alive
    /\ pc[t] = "handle_lock"
    /\ hmu = 0
    /\ LET sig == hframe[t].sig
           s == [Signal |-> sig, Exit |-> sig \in TermSignals, ExitType |-> "Signal",
                 ExitCode |-> 0] IN
       IF SignalLatched
       THEN /\ pc' = [pc EXCEPT ![t] = "loop_select"]
            /\ hframe' = [hframe EXCEPT ![t] = NoHFrame]
            /\ ret' = HandlerRet(t, "handleSignal", hookMap[sig], sig, "exitLock")
            /\ UNCHANGED <<hmu, hooks, frame, trace, snap>>
       ELSE IF hookMap[sig] # NoHook
       THEN /\ hmu' = t
            /\ StartExec(t, hookMap[sig], "handled", s)
            /\ pc' = [pc EXCEPT ![t] = "exec_lock"]
            /\ UNCHANGED <<hframe, ret>>
       ELSE /\ hmu' = t
            /\ pc' = [pc EXCEPT ![t] = "handled"]
            /\ UNCHANGED <<hframe, ret, hooks, frame, trace, snap>>
    /\ UNCHANGED <<exitHook, hookMap, capturing, sigCh, loopLock, exitLock, proc, exits>>
    /\ UNCHANGED <<running, chLen, chRecv, ackSend, lastF, lastN, replaced, nreg, nexec>>
    /\ UNCHANGED <<defaultHandler, getting, inner>>

\* handleSignal after hook.Exec: h.exit(0, ExitTypeSignal, sig) for a
\* termination signal, else the deferred h.mu.Unlock() and back to the loop
HandleSignalDone(t) ==
    /\ proc.alive
    /\ pc[t] = "handled"
    /\ IF hframe[t].sig \in TermSignals
       THEN /\ pc' = [pc EXCEPT ![t] = "exit"]
            /\ hframe' = [hframe EXCEPT ![t].code = 0, ![t].type = "Signal"]
            /\ UNCHANGED hmu
       ELSE /\ pc' = [pc EXCEPT ![t] = "loop_select"]
            /\ hframe' = [hframe EXCEPT ![t] = NoHFrame]
            /\ hmu' = 0
    /\ UNCHANGED <<ret, exitHook, hookMap, capturing, sigCh, loopLock, exitLock, proc, exits>>
    /\ UNCHANGED hookSide

\* handler.Exit(code), up to h.mu.Lock()
Exit(t, code) ==
    /\ proc.alive
    /\ pc[t] = "idle"
    /\ exits.calls < MaxExits
    /\ exits' = [exits EXCEPT !.calls = @ + 1]
    /\ pc' = [pc EXCEPT ![t] = "exit_lock"]
    /\ hframe' = [hframe EXCEPT ![t] = [sig |-> NoSignal, code |-> code,
                                        type |-> "Manual", from |-> "Exit"]]
    /\ UNCHANGED <<ret, exitHook, hookMap, capturing, sigCh, hmu, loopLock, exitLock, proc>>
    /\ UNCHANGED hookSide

\* handler.Exit: h.mu.Lock() and the call of h.exit
ExitLocked(t) ==
    /\ proc.alive
    /\ pc[t] = "exit_lock"
    /\ hmu = 0
    /\ hmu' = t
    /\ pc' = [pc EXCEPT ![t] = "exit"]
    /\ UNCHANGED <<ret, exitHook, hookMap, capturing, sigCh, loopLock, exitLock, hframe,
                   proc, exits>>
    /\ UNCHANGED hookSide

\* the goroutines a non-blocking send on h.exitCh can reach: those parked in
\* the select of Loop
Parked == {u \in Threads : pc[u] = "loop_select" /\ sigCh = <<>>}

\* ExitLatched without the latch
ExitLatchedNever == FALSE

\* if h.exitLock { return }
ExitLatched == exitLock

\* handler.exit up to h.exitHook.Exec(ctx).  With the latch set it returns to
\* its caller, whose deferred h.mu.Unlock() runs.  The send on h.exitCh is
\* taken by a goroutine parked in Loop's select, which then returns from Loop,
\* or it is dropped.
exit(t) ==
    /\ proc.alive
    /\ pc[t] = "exit"
    /\ IF ExitLatched
       THEN /\ pc' = [pc EXCEPT ![t] = IF hframe[t].from = "Exit" THEN "idle"
                                       ELSE "loop_select"]
            /\ hmu' = 0
            /\ hframe' = [hframe EXCEPT ![t] = NoHFrame]
            /\ exits' = [exits EXCEPT !.noop = @ + 1]
            /\ ret' = IF hframe[t].from = "Exit"
                      THEN [ret EXCEPT ![t] = [NoRet EXCEPT !.op = "Exit", !.err = "nil"]]
                      ELSE ret
            /\ UNCHANGED <<exitLock, loopLock, hooks, frame, trace, snap>>
       ELSE /\ exitLock' = TRUE
            /\ loopLock' = FALSE
            /\ LET s == [Signal |-> hframe[t].sig, Exit |-> TRUE,
                         ExitType |-> hframe[t].type, ExitCode |-> hframe[t].code]
                   next == IF exitHook # NoHook THEN "exec_lock" ELSE "exited" IN
              /\ \/ pc' = [pc EXCEPT ![t] = next]
                 \/ \E u \in Parked \ {t} : pc' = [pc EXCEPT ![t] = next, ![u] = "idle"]
              /\ IF exitHook # NoHook
                 THEN /\ StartExec(t, exitHook, "exited", s)
                      /\ exits' = [exits EXCEPT !.hook = @ + 1]
                 ELSE UNCHANGED <<exits, hooks, frame, trace, snap>>
            /\ UNCHANGED <<hmu, hframe, ret>>
    /\ UNCHANGED <<exitHook, hookMap, capturing, sigCh, proc>>
    /\ UNCHANGED <<running, chLen, chRecv, ackSend, lastF, lastN, replaced, nreg, nexec>>
    /\ UNCHANGED <<defaultHandler, getting, inner>>

\* handler.exit after the exit Hook: signal.Reset(h.capturing...); os.Exit(code)
Terminate(t) ==
    /\ proc.alive
    /\ pc[t] = "exited"
    /\ proc' = [alive |-> FALSE, code |-> hframe[t].code,
                notify |-> proc.notify \ SeqToSet(capturing)]
    /\ exits' = [exits EXCEPT !.os = @ + 1]
    /\ pc' = [pc EXCEPT ![t] = "terminated"]
    /\ UNCHANGED <<ret, exitHook, hookMap, capturing, sigCh, hmu, loopLock, exitLock, hframe>>
    /\ UNCHANGED hookSide

\* every variable but the accessor's
handlerSide == <<hooks, pc, frame, ret, trace, snap, running, chLen, chRecv, ackSend,
                 lastF, lastN, replaced, nreg, nexec, exitHook, hookMap, capturing,
                 sigCh, hmu, loopLock, exitLock, hframe, proc, exits, inner>>

\* GetHandler: if defaultHandler == nil.  The variable is read without a lock.
GetHandler(c) ==
    /\ proc.alive
    /\ getting.at[c] = "idle"
    /\ getting' = [getting EXCEPT !.at[c] = IF defaultHandler = 0 THEN "new"
                                            ELSE "return"]
    /\ UNCHANGED defaultHandler
    /\ UNCHANGED handlerSide

\* GetHandler: defaultHandler = newHandler()
GetHandlerNew(c) ==
    /\ proc.alive
    /\ getting.at[c] = "new"
    /\ defaultHandler' = getting.made + 1
    /\ getting' = [getting EXCEPT !.made = @ + 1, !.at[c] = "return"]
    /\ UNCHANGED handlerSide

\* GetHandler: return defaultHandler
GetHandlerReturn(c) ==
    /\ proc.alive
    /\ getting.at[c] = "return"
    /\ getting' = [getting EXCEPT !.at[c] = "idle", !.got[c] = defaultHandler]
    /\ UNCHANGED defaultHandler
    /\ UNCHANGED handlerSide

\* ------------------------------------------------------------ specifications
vars == <<hooks, pc, frame, ret, trace, snap, running, chLen, chRecv, ackSend,
          lastF, lastN, replaced, nreg, nexec, exitHook, hookMap, capturing, sigCh,
          hmu, loopLock, exitLock, hframe, proc, exits, defaultHandler, getting,
          inner>>

Init == HookInit /\ HandlerInit

\* Registry and ordering: one Hook, registrations over every Order, Overwrite
\* and name, lookups and Execs
RegistryFunctionArgs ==
    FunctionArgs(FuncNames, {5, MaxUint16}, {FALSE}, BOOLEAN) \cup BadFunctionArgs
RegistryNotifyArgs ==
    NotifyArgs(NotifyNames, {5, 10, MaxUint16}, {TRUE}, BOOLEAN, {1}, {NilChan}) \cup BadNotifyArgs

\* the goroutines that call into the Hook in this specification
RegistryThreads == {1}

NextRegistry ==
    \/ \E t \in RegistryThreads, f \in RegistryFunctionArgs : Function(t, "h", f)
    \/ \E t \in RegistryThreads : FunctionLocked(t)
    \/ \E t \in RegistryThreads, n \in RegistryNotifyArgs : Notify(t, "h", n)
    \/ \E t \in RegistryThreads : NotifyLocked(t)
    \/ \E t \in RegistryThreads, k \in FuncNames : GetFunction(t, "h", k)
    \/ \E t \in RegistryThreads, k \in NotifyNames : GetNotify(t, "h", k)
    \/ \E t \in RegistryThreads : Exec(t, "h")
    \/ \E t \in RegistryThreads : ExecReorder(t)
    \/ \E t \in RegistryThreads : ExecRLock(t)
    \/ \E t \in RegistryThreads : ExecFunction(t)
    \/ \E t \in RegistryThreads : BodyReturn(t)
    \/ \E t \in RegistryThreads : ExecNotify(t)

SpecRegistry == Init /\ [][NextRegistry]_vars

\* Dispatch: one Hook whose entries differ in Concurrent, NonBlocking, the
\* signal channel and the acknowledgement channel; the callers' receivers and
\* acknowledgement senders come and go
DispatchFunctionArgs == FunctionArgs(FuncNames, {5}, BOOLEAN, {FALSE})
DispatchNotifyArgs ==
    NotifyArgs(NotifyNames, {5}, BOOLEAN, {FALSE}, Chans, {NilChan} \cup DoneChans)

DispatchThreads == {1}

NextDispatch ==
    \/ \E t \in DispatchThreads, f \in DispatchFunctionArgs : Function(t, "h", f)
    \/ \E t \in DispatchThreads : FunctionLocked(t)
    \/ \E t \in DispatchThreads, n \in DispatchNotifyArgs : Notify(t, "h", n)
    \/ \E t \in DispatchThreads : NotifyLocked(t)
    \/ \E t \in DispatchThreads : Exec(t, "h")
    \/ \E t \in DispatchThreads : ExecReorder(t)
    \/ \E t \in DispatchThreads : ExecRLock(t)
    \/ \E t \in DispatchThreads : ExecFunction(t)
    \/ \E t \in DispatchThreads : BodyReturn(t)
    \/ \E g \in running : GoBodyReturn(g)
    \/ \E t \in DispatchThreads : ExecNotify(t)
    \/ \E t \in DispatchThreads : ExecAck(t)
    \/ \E c \in Chans : Receiver(c)
    \/ \E d \in DoneChans : AckSender(d)

SpecDispatch == Init /\ [][NextDispatch]_vars

\* Handler: one goroutine sets up Hook "h" as the exit Hook and "h" or "g" as
\* signal Hooks and registers inline Functions on them; both goroutines run
\* Loop and call Exit while the runtime relays signals
HandlerFunctionArgs == FunctionArgs({"a"}, {5}, {FALSE}, {FALSE})

\* the goroutine that sets the Handler and its Hooks up
MainThreads == {2}
\* the signals the callers name and the runtime relays: one of the termination
\* class, one outside it
HandlerSignals == {"SIGINT", "SIGHUP"}
\* the codes passed to Exit: one that differs from the 0 of a signal-driven exit
HandlerExitCodes == {2}

NextHandler ==
    \/ \E t \in MainThreads, h \in HookIds, f \in HandlerFunctionArgs : Function(t, h, f)
    \/ \E t \in Threads : FunctionLocked(t)
    \/ \E t \in MainThreads : SetExit(t, "h")
    \/ \E t \in MainThreads, sig \in HandlerSignals, h \in HookIds : Set(t, sig, h)
    \/ \E sig \in HandlerSignals : OSSignal(sig)
    \/ \E t \in Threads : Loop(t)
    \/ \E t \in Threads : LoopSignal(t)
    \/ \E t \in Threads : HandleSignal(t)
    \/ \E t \in Threads : HandleSignalDone(t)
    \/ \E t \in Threads, code \in HandlerExitCodes : Exit(t, code)
    \/ \E t \in Threads : ExitLocked(t)
    \/ \E t \in Threads : exit(t)
    \/ \E t \in Threads : Terminate(t)
    \/ \E t \in Threads : ExecReorder(t)
    \/ \E t \in Threads : ExecRLock(t)
    \/ \E t \in Threads : ExecFunction(t)
    \/ \E t \in Threads : BodyReturn(t)
    \/ \E t \in Threads : ExecNotify(t)

SpecHandler == Init /\ [][NextHandler]_vars

\* Bindings: two goroutines bind, look up and lazily create the exit Hook and
\* the signal Hooks, with the caller's Hooks "h" and "g" and the nil Hook
BindingSignals == {"SIGINT", "SIGHUP"}

NextBindings ==
    \/ \E t \in Threads, h \in HookIds \cup {NoHook} : SetExit(t, h)
    \/ \E t \in Threads : GetExit(t)
    \/ \E t \in Threads : GetsExit(t)
    \/ \E t \in Threads, sig \in BindingSignals, h \in HookIds \cup {NoHook} : Set(t, sig, h)
    \/ \E t \in Threads, sig \in BindingSignals : Get(t, sig)
    \/ \E t \in Threads, sig \in BindingSignals : Gets(t, sig)

SpecBindings == Init /\ [][NextBindings]_vars

\* Shutdown: the exit Hook "h" holds a blocking Notify, with or without an
\* acknowledgement channel; one goroutine sets the Handler up and calls Exit,
\* the other runs Loop; termination signals arrive; receivers and
\* acknowledgement senders on the caller's channels come and go
ShutdownNotifyArgs == NotifyArgs({"n"}, {5}, {FALSE}, {FALSE}, {1}, {NilChan} \cup DoneChans)
LoopThreads == Threads \ MainThreads

NextShutdown ==
    \/ \E t \in MainThreads, n \in ShutdownNotifyArgs : Notify(t, "h", n)
    \/ \E t \in MainThreads : NotifyLocked(t)
    \/ \E t \in MainThreads : SetExit(t, "h")
    \/ \E sig \in TermSignals : OSSignal(sig)
    \/ \E t \in LoopThreads : Loop(t)
    \/ \E t \in Threads : LoopSignal(t)
    \/ \E t \in Threads : HandleSignal(t)
    \/ \E t \in Threads : HandleSignalDone(t)
    \/ \E t \in MainThreads, code \in HandlerExitCodes : Exit(t, code)
    \/ \E t \in Threads : ExitLocked(t)
    \/ \E t \in Threads : exit(t)
    \/ \E t \in Threads : Terminate(t)
    \/ \E t \in Threads : ExecReorder(t)
    \/ \E t \in Threads : ExecRLock(t)
    \/ \E t \in Threads : ExecFunction(t)
    \/ \E t \in Threads : ExecNotify(t)
    \/ \E t \in Threads : ExecAck(t)
    \/ \E c \in {1} : Receiver(c)
    \/ \E d \in DoneChans : AckSender(d)

\* the steps of goroutine t once it is inside a Handler or Hook method: the Go
\* scheduler runs a goroutine that can run
Step(t) ==
    \/ NotifyLocked(t) \/ LoopSignal(t) \/ HandleSignal(t) \/ HandleSignalDone(t)
    \/ ExitLocked(t) \/ exit(t) \/ Terminate(t)
    \/ ExecReorder(t) \/ ExecRLock(t) \/ ExecFunction(t) \/ ExecNotify(t) \/ ExecAck(t)

SpecShutdown ==
    Init /\ [][NextShutdown]_vars /\ \A t \in Threads : WF_vars(Step(t))

\* Re-entrance: the inline body of Function "a" of Hook "h", run by an Exec
\* the caller makes or by handleSignal for SIGHUP, calls Handler.Get or
\* registers a Function on "h" or on "g"
ReentrantFunctionArgs == FunctionArgs({"b"}, {5}, {FALSE}, {TRUE})

NextReentrant ==
    \/ \E t \in MainThreads, f \in HandlerFunctionArgs : Function(t, "h", f)
    \/ \E t \in MainThreads : FunctionLocked(t)
    \/ \E t \in MainThreads : Set(t, "SIGHUP", "h")
    \/ OSSignal("SIGHUP")
    \/ \E t \in LoopThreads : Loop(t)
    \/ \E t \in Threads : LoopSignal(t)
    \/ \E t \in Threads : HandleSignal(t)
    \/ \E t \in Threads : HandleSignalDone(t)
    \/ \E t \in MainThreads : Exec(t, "h")
    \/ \E t \in Threads : ExecReorder(t)
    \/ \E t \in Threads : ExecRLock(t)
    \/ \E t \in Threads : ExecFunction(t)
    \/ \E t \in Threads : BodyReturn(t)
    \/ \E t \in Threads : ExecNotify(t)
    \/ \E t \in Threads : BodyCallsGet(t, "SIGHUP")
    \/ \E t \in Threads : BodyGetLocked(t)
    \/ \E t \in Threads, h \in HookIds, f \in ReentrantFunctionArgs : BodyCallsFunction(t, h, f)
    \/ \E t \in Threads : BodyFunctionLocked(t)

SpecReentrant == Init /\ [][NextReentrant]_vars

\* Accessor: goroutines call GetHandler, the first calls at the same time
NextAccessor ==
    \/ \E c \in Getters : GetHandler(c)
    \/ \E c \in Getters : GetHandlerNew(c)
    \/ \E c \in Getters : GetHandlerReturn(c)

SpecAccessor == Init /\ [][NextAccessor]_vars

\* ------------------------------------------------------- reading the traces
\* the goroutine's last call was an Exec, and it returned
Ended(t) == pc[t] = "idle" /\ ret[t].op = "Exec"

\* positions of the trace where a Function was invoked or launched / a Notify sent
FnEvents(t) == {i \in 1..Len(trace[t]) : trace[t][i].ev \in {"call", "go"}}
NtEvents(t) == {i \in 1..Len(trace[t]) : trace[t][i].ev = "send"}

\* how often the Exec of t invoked, launched or sent the entry of registration r
Count(t, r) == Cardinality({i \in FnEvents(t) \cup NtEvents(t) : trace[t][i].reg = r})

\* no Notify of the maximum Order was registered
NoMaxOrderNotify ==
    \A h \in HookIds, k \in NotifyNames : lastN[h][k].Order # MaxUint16

NoDuplicate(order) ==
    \A i, j \in 1..Len(order) : order[i].reg = order[j].reg => i = j

\* ------------------------------------------------------------------ claims
\* C1: whatever the interleaving of termination signals handled by the loop
\* and Exit calls, the exit Hook's Exec is started at most once and os.Exit is
\* called at most once, and a goroutine that enters the exit sequence with the
\* latch set returns without starting a Hook, terminating or touching a Hook.
C1_ExitOnce ==
    /\ [](exits.hook <= 1 /\ exits.os <= 1)
    /\ [][\A t \in Threads :
            pc[t] = "exit" /\ exitLock /\ pc'[t] # pc[t] =>
              /\ pc'[t] \in {"idle", "loop_select"}
              /\ exits'.hook = exits.hook /\ exits'.os = exits.os
              /\ hooks' = hooks /\ proc' = proc /\ exitLock']_vars

\* C1 witness: the exit sequence was entered a second time, with the latch set,
\* after the exit Hook had been started
C1_Witness == exits.noop >= 1 /\ exits.hook = 1 /\ exitLock

\* this step is the return of a SetExit / Set call of goroutine t
BindingReturns(t) ==
    /\ pc[t] = "idle" /\ pc'[t] = "idle"
    /\ ret'[t] # ret[t]
    /\ ret'[t].op \in {"SetExit", "Set"}

\* C11: SetExit with an exit Hook already set and Set for a signal that has a
\* Hook fail with ErrExitExists / ErrSignalExists, a nil Hook fails with
\* ErrHookNil, and each such call leaves the exit Hook, the signal-to-Hook map
\* and the intercepted-signal list unchanged, also when the binding was made
\* by GetsExit / Gets.
C11_BindingNeverReplaced ==
    [][\A t \in Threads :
         BindingReturns(t) =>
           LET r == ret'[t]
               expected ==
                 IF r.hook = NoHook THEN "ErrHookNil"
                 ELSE IF r.op = "SetExit" /\ exitHook # NoHook THEN "ErrExitExists"
                 ELSE IF r.op = "Set" /\ hookMap[r.name] # NoHook THEN "ErrSignalExists"
                 ELSE "nil" IN
           /\ r.err = expected
           /\ expected # "nil" =>
                /\ exitHook' = exitHook /\ hookMap' = hookMap
                /\ capturing' = capturing /\ proc' = proc]_vars

\* C11 witness: SetExit was refused on the exit Hook GetsExit had made, and Set
\* was refused on a signal Hook Gets had made
C11_Witness ==
    /\ exitHook = ExitHookName
    /\ hookMap["SIGHUP"] = SignalHookName("SIGHUP")
    /\ ret[1].op = "SetExit" /\ ret[1].hook = "h" /\ ret[1].err = "ErrExitExists"
    /\ ret[2].op = "Set" /\ ret[2].name = "SIGHUP" /\ ret[2].hook = "g"
         /\ ret[2].err = "ErrSignalExists"

\* goroutine t is inside an Exec that its caller resumes at cont
InExec(t, cont) ==
    /\ pc[t] \in {"exec_lock", "exec_rlock", "exec_functions", "exec_body",
                  "exec_notifies", "exec_ack"}
    /\ frame[t].cont = cont

\* the context handleSignal / the exit sequence hand to Exec for signal sig
SignalCtx(sig, terminating) ==
    [Signal |-> sig, Exit |-> terminating, ExitType |-> "Signal", ExitCode |-> 0]

\* C12: the loop's handling of a signal runs the Hook of that exact signal to
\* completion, with a context carrying the signal, Exit = (the signal is of
\* the termination class) and ExitCode 0; for a termination signal it then runs
\* the exit Hook with Exit = TRUE, ExitType Signal, ExitCode 0 and the same
\* signal and the process terminates with code 0; a non-termination signal
\* never starts the exit sequence.  No Exec of the handling ends in a panic.
C12_TerminationSignal ==
    \A t \in Threads :
      hframe[t].from = "handleSignal" =>
        LET sig == hframe[t].sig IN
        /\ pc[t] # "panicked"
        /\ InExec(t, "handled") =>
             /\ frame[t].hook = hookMap[sig]
             /\ frame[t].ctx = SignalCtx(sig, sig \in TermSignals)
             /\ exits.hook = 0
        /\ InExec(t, "exited") =>
             /\ frame[t].hook = exitHook
             /\ frame[t].ctx = SignalCtx(sig, TRUE)
        /\ pc[t] \in {"exit", "exited", "terminated"} \/ InExec(t, "exited")
             => sig \in TermSignals
        /\ pc[t] = "terminated" => ~proc.alive /\ proc.code = 0

\* C13: once the exit latch is set no goroutine is inside, or starts, the Exec
\* of a signal Hook, and a signal the loop dequeues from then on is dropped
\* without touching a Hook.
C13_NoSignalHookAfterLatch ==
    /\ [](exitLock => \A t \in Threads : ~InExec(t, "handled"))
    /\ [][\A t \in Threads :
            pc[t] = "handle_lock" /\ exitLock /\ pc'[t] # pc[t] =>
              /\ pc'[t] = "loop_select"
              /\ hooks' = hooks /\ frame' = frame /\ trace' = trace
              /\ exits' = exits /\ proc' = proc]_vars

\* C13 witness: after the exit Hook was started, the loop dequeued a signal
\* that has a Hook and handleSignal returned at the latch
C13_Witness ==
    \E t \in Threads :
      /\ exitLock /\ exits.hook = 1
      /\ pc[t] = "loop_select"
      /\ ret[t].op = "handleSignal" /\ ret[t].hook # NoHook

\* goroutine t is inside the for of Loop: at the select, or in the
\* handleSignal the loop called
InLoop(t) ==
    \/ pc[t] = "loop_select"
    \/ hframe[t].from = "handleSignal" /\ pc[t] \notin {"panicked", "terminated"}

\* this step is a call of Loop by goroutine t
LoopCalled(t) == pc[t] = "idle" /\ pc'[t] \in {"loop_select", "panicked"}

\* C14: Loop called after the exit sequence began panics with ErrExitLocked,
\* Loop called while a loop is running panics with ErrLoopLocked, neither
\* enters the select, and at most one goroutine is inside the for of Loop.
C14_SingleLoop ==
    /\ [](Cardinality({t \in Threads : InLoop(t)}) <= 1)
    /\ [][\A t \in Threads :
            LoopCalled(t) =>
              /\ exitLock => pc'[t] = "panicked" /\ ret'[t].err = "ErrExitLocked"
              /\ ~exitLock /\ (\E u \in Threads \ {t} : InLoop(u)) =>
                   pc'[t] = "panicked" /\ ret'[t].err = "ErrLoopLocked"
              /\ pc'[t] = "panicked" => loopLock' = loopLock /\ sigCh' = sigCh]_vars

\* C14 witness: a goroutine's Loop panicked with ErrLoopLocked while the other
\* goroutine is in its loop, handling a signal
C14_Witness ==
    \E t, u \in Threads :
      /\ pc[t] = "panicked" /\ ret[t].op = "Loop" /\ ret[t].err = "ErrLoopLocked"
      /\ InLoop(u) /\ pc[u] # "loop_select"

\* C15: newHandler is called at most once, and every call of GetHandler
\* returns the same Handler, also when the first calls are concurrent.
C15_Singleton ==
    /\ getting.made <= 1
    /\ \A c, d \in Getters :
         getting.got[c] # 0 /\ getting.got[d] # 0 => getting.got[c] = getting.got[d]

\* C16: the reorder step at the start of an Exec clears the dirty flag: while
\* an Exec is past its reorder step, with no registration since, the flag of
\* its Hook is down (so the next Exec, finding it down, recomputes nothing).
C16_LazyReorder ==
    \A t \in RegistryThreads :
      pc[t] \in {"exec_rlock", "exec_functions", "exec_body", "exec_notifies"}
        => ~hooks[frame[t].hook].doReorder

\* C17: once the exit sequence has begun (the latch is set) the process
\* eventually terminates, with the code of the call that began it.
C17_ExitTerminates ==
    exitLock ~> (~proc.alive /\ \E t \in Threads : pc[t] = "terminated"
                                                  /\ proc.code = hframe[t].code)

\* C18: the reorder step of an Exec terminates whatever the registered Order
\* values are: no goroutine stays in a selection loop that removes nothing
\* from the working map.
C18_ReorderTerminates ==
    \A t \in Threads : pc[t] # "reorder_spin"

\* C19: a call made by an inline body returns: the goroutine running the body
\* never waits for the Handler mutex while it holds that mutex itself (as
\* handleSignal does across Exec), nor for the write lock of a Hook whose read
\* lock it holds itself (as Exec does across the bodies); such a wait has no
\* end, because only the waiting goroutine could release the lock.
C19_ReentrantCallsReturn ==
    \A t \in Threads :
      /\ pc[t] = "body_handler_lock" => hmu # t
      /\ pc[t] = "body_function_lock" => t \notin hooks[inner[t].hook].readers

\* C2: a Hook can be executed repeatedly: every Exec completes its ordering
\* step, a returned Exec has invoked or launched each Function registered at its
\* reorder exactly once and sent on each such Notify exactly once, and the
\* cached order sequences hold no nil and no duplicated entry.  (Stated for
\* Hooks without a Notify of Order 65535.)
C2_ExecRepeatable ==
    NoMaxOrderNotify =>
      /\ \A t \in Threads :
           /\ pc[t] \notin {"panicked", "reorder_spin"}
           /\ Ended(t) => \A r \in snap[t].F \cup snap[t].N : Count(t, r) = 1
      /\ \A h \in HookIds :
           /\ ~HasNil(hooks[h].functionOrder) /\ NoDuplicate(hooks[h].functionOrder)
           /\ ~HasNil(hooks[h].notifyOrder) /\ NoDuplicate(hooks[h].notifyOrder)

\* C3: within one Exec the Functions are invoked / launched in non-decreasing
\* Order, and the Notifies are sent in non-decreasing Order.
C3_AscendingOrder ==
    \A t \in Threads :
      /\ \A i, j \in FnEvents(t) : i < j => trace[t][i].Order <= trace[t][j].Order
      /\ \A i, j \in NtEvents(t) : i < j => trace[t][i].Order <= trace[t][j].Order

\* C3 witness: an Exec returned after running a Function registered later, with
\* the lower Order, before one registered earlier
C3_Witness ==
    \E t \in Threads :
      /\ Ended(t)
      /\ \E i, j \in FnEvents(t) :
           /\ i < j
           /\ trace[t][i].reg > trace[t][j].reg
           /\ trace[t][i].Order < trace[t][j].Order

\* C4: of two Functions (or two Notifies) with equal Order, Exec runs the one
\* registered first before the one registered later.
C4_TiesInRegistrationOrder ==
    \A t \in Threads :
      /\ \A i, j \in FnEvents(t) :
           i < j /\ trace[t][i].Order = trace[t][j].Order
             => trace[t][i].reg < trace[t][j].reg
      /\ \A i, j \in NtEvents(t) :
           i < j /\ trace[t][i].Order = trace[t][j].Order
             => trace[t][i].reg < trace[t][j].reg

\* what a registration call must return for its argument on the Hook as it is
FunctionError(h, f) ==
    IF f.Name = "" THEN "ErrFunctionNameEmpty"
    ELSE IF ~f.Func THEN "ErrFuncNil"
    ELSE IF f.Name \in Keys(hooks[h].functions) /\ ~f.Overwrite THEN "ErrFunctionExists"
    ELSE "nil"
NotifyError(h, n) ==
    IF n.Name = "" THEN "ErrNotifyNameEmpty"
    ELSE IF n.Chan = NilChan THEN "ErrChanNil"
    ELSE IF n.Name \in Keys(hooks[h].notifies) /\ ~n.Overwrite THEN "ErrNotifyExists"
    ELSE "nil"

\* the registry fields of a Hook (everything but its mutex)
HookData(hk) ==
    [functions |-> hk.functions, notifies |-> hk.notifies,
     functionOrder |-> hk.functionOrder, notifyOrder |-> hk.notifyOrder,
     doReorder |-> hk.doReorder]

\* this step is the return of a registration call of goroutine t
RegistrationReturns(t) ==
    \/ pc[t] \in {"function_lock", "notify_lock"} /\ pc'[t] = "idle"
    \/ pc[t] = "idle" /\ pc'[t] = "idle" /\ nreg' = nreg + 1 /\ ret'[t] # ret[t]

\* C5: a registration with an empty name, a nil body / channel, or an existing
\* name without Overwrite returns the corresponding error and leaves the maps,
\* the cached order sequences and the dirty flag as they were.
C5_RejectedRegistration ==
    [][\A t \in Threads :
         RegistrationReturns(t) =>
           LET r == ret'[t]
               h == r.hook
               expected == IF r.op = "Function" THEN FunctionError(h, r.fn)
                           ELSE NotifyError(h, r.nt) IN
           expected # "nil" => r.err = expected /\ HookData(hooks'[h]) = HookData(hooks[h])]_vars

\* C5 witness: the registration of a Function under an existing name, with
\* another Order and without Overwrite, returned ErrFunctionExists
C5_Witness ==
    \E t \in Threads :
      /\ ret[t].op = "Function" /\ ret[t].err = "ErrFunctionExists" /\ pc[t] = "idle"
         /\ \E k \in FuncNames : lastF["h"][k].reg # 0 /\ lastF["h"][k].Order # ret[t].fn.Order

\* the Exec of t is over: it returned, or it panicked
ExecOver(t) == Ended(t) \/ pc[t] = "panicked"

\* C6: an Overwrite registration under an existing name succeeds, and every
\* later Exec invokes (or sends on) the new entry exactly once and the replaced
\* one never.
C6_OverwriteReplaces ==
    /\ \A t \in Threads :
         /\ ret[t].op = "Function" /\ ret[t].fn.Overwrite /\ ret[t].fn.Name # ""
              /\ ret[t].fn.Func => ret[t].err = "nil"
         /\ ret[t].op = "Notify" /\ ret[t].nt.Overwrite /\ ret[t].nt.Name # ""
              /\ ret[t].nt.Chan # NilChan => ret[t].err = "nil"
    /\ \A t \in Threads, p \in replaced :
         ExecOver(t) /\ p.new \in snap[t].F \cup snap[t].N
           => Count(t, p.new) = 1 /\ Count(t, p.old) = 0

\* C7: a lookup finds, under every name, the entry most recently registered
\* under it (nil if none): no registered entry is lost from the maps.  (Stated
\* for Hooks without a Notify of Order 65535.)
C7_LookupFaithful ==
    NoMaxOrderNotify =>
      \A h \in HookIds :
        /\ \A k \in FuncNames :
             Lookup(hooks[h].functions, k, NilFunction) = lastF[h][k]
        /\ \A k \in NotifyNames :
             Lookup(hooks[h].notifies, k, NilNotify) = lastN[h][k]

\* the entry the notifies loop of t stands at, when it stands at one
AtNotify(t) ==
    /\ pc[t] = "exec_notifies"
    /\ frame[t].idx <= Len(hooks[frame[t].hook].notifyOrder)
CurrentNotify(t) == hooks[frame[t].hook].notifyOrder[frame[t].idx]

\* C8: Exec waits for no body launched with Concurrent=true, and the body of a
\* Function with Concurrent=false has returned before Exec starts the next
\* Function or any Notify.
C8_ConcurrentInline ==
    \A t \in Threads :
      /\ pc[t] = "exec_body" => ~frame[t].fn.Concurrent
      /\ pc[t] = "exec_functions" => ENABLED ExecFunction(t)
      /\ \A i \in 1..Len(trace[t]) :
           /\ trace[t][i].ev = "go" => trace[t][i].detached
           /\ trace[t][i].ev = "call" =>
                /\ ~trace[t][i].detached
                /\ IF i = Len(trace[t]) THEN pc[t] = "exec_body"
                   ELSE /\ trace[t][i + 1].ev = "ret"
                        /\ trace[t][i + 1].reg = trace[t][i].reg

\* C8 witness: an Exec returned, after a send, while a body it launched is still
\* running
C8_Witness ==
    \E t \in Threads :
      /\ Ended(t)
      /\ \E i \in FnEvents(t), j \in NtEvents(t) :
           /\ i < j
           /\ trace[t][i].ev = "go"
           /\ [by |-> t, reg |-> trace[t][i].reg] \in running

\* C9: a NonBlocking Notify never blocks Exec: with no ready receiver the send
\* is dropped and Exec goes on, returning nil; a Notify with NonBlocking=false
\* and no ready receiver keeps Exec where it is, and its send is never dropped.
C9_NonBlockingSend ==
    \A t \in Threads :
      /\ AtNotify(t) /\ CurrentNotify(t).NonBlocking => ENABLED ExecNotify(t)
      /\ AtNotify(t) /\ ~CurrentNotify(t).NonBlocking
           /\ ~CanSend(CurrentNotify(t).Chan) => ~ENABLED ExecNotify(t)
      /\ \A i \in NtEvents(t) : ~trace[t][i].ok => trace[t][i].detached
      /\ Ended(t) => ret[t].err = "nil"

\* C9 witness: an Exec returned after dropping the send of a NonBlocking Notify
\* and delivering the send of a blocking one
C9_Witness ==
    \E t \in Threads :
      /\ Ended(t)
      /\ \E i, j \in NtEvents(t) :
           /\ trace[t][i].detached /\ ~trace[t][i].ok
           /\ ~trace[t][j].detached /\ trace[t][j].ok

\* C10: after the send of a Notify with an acknowledgement channel, delivered
\* or dropped, Exec receives exactly one value on that channel before it goes
\* on; it cannot go on while no value is offered; without an acknowledgement
\* channel it goes on right after the send.
C10_AckBarrier ==
    \A t \in Threads :
      /\ pc[t] = "exec_ack" =>
           /\ frame[t].nt.DoneChan # NilChan
           /\ ~ackSend[frame[t].nt.DoneChan] => ~ENABLED ExecAck(t)
           /\ ~ENABLED ExecNotify(t)
      /\ \A i \in 1..Len(trace[t]) :
           /\ trace[t][i].ev = "send" /\ trace[t][i].acked =>
                IF i = Len(trace[t]) THEN pc[t] = "exec_ack"
                ELSE /\ trace[t][i + 1].ev = "ack"
                     /\ trace[t][i + 1].reg = trace[t][i].reg
           /\ trace[t][i].ev = "send" /\ ~trace[t][i].acked =>
                /\ ~(i = Len(trace[t]) /\ pc[t] = "exec_ack")
                /\ i < Len(trace[t]) => trace[t][i + 1].ev # "ack"
           /\ trace[t][i].ev = "ack" =>
                /\ i > 1
                /\ trace[t][i - 1].ev = "send"
                /\ trace[t][i - 1].reg = trace[t][i].reg

\* C10 witness: an Exec returned after a dropped send that was followed by the
\* receipt of its acknowledgement, and a send without acknowledgement channel
C10_Witness ==
    \E t \in Threads :
      /\ Ended(t)
      /\ \E i, j \in NtEvents(t) :
           /\ ~trace[t][i].ok /\ trace[t][i].acked /\ trace[t][i + 1].ev = "ack"
           /\ ~trace[t][j].acked

\* C20: within one Exec every Function registered on the Hook was invoked or
\* launched, and every inline one has returned, before the first Notify is
\* sent, whatever the Order values of the Functions and the Notifies are.
C20_FunctionsBeforeNotifies ==
    \A t \in Threads :
      \A j \in NtEvents(t) :
        /\ \A i \in FnEvents(t) : i < j
        /\ \A r \in snap[t].F : \E i \in FnEvents(t) : trace[t][i].reg = r
        /\ \A i \in FnEvents(t) :
             trace[t][i].ev = "call" =>
               i + 1 < j /\ trace[t][i + 1].ev = "ret" /\ trace[t][i + 1].reg = trace[t][i].reg

\* C20 witness: an Exec returned after sending a Notify of a lower Order than
\* that of the inline Function it had run before
C20_Witness ==
    \E t \in Threads :
      /\ Ended(t)
      /\ \E i \in FnEvents(t), j \in NtEvents(t) :
           /\ trace[t][i].ev = "call"
           /\ trace[t][j].Order < trace[t][i].Order

====
